---- MODULE Spec2Model ----
(***************************************************************************)
(* Model of the environment scaffolder: main.go, enviorments2remote.go and *)
(* the third, sequential variant (src/unnamed/part_000).                   *)
(*                                                                         *)
(* The file system is a function from paths (sequences of names) to nodes. *)
(* Every os / filepath call the programs make is an operator on that       *)
(* function; every statement group of main and every invocation of the     *)
(* walk callback is one action.  Standard output is kept as a bag of       *)
(* messages (no property orders two messages of different writers).        *)
(***************************************************************************)
EXTENDS Bags, FiniteSets, Integers, Sequences, TLC

VARIABLES
    variant,    \* which program runs: "main", "remote" or "seq"
    directoryName,  \* the source path read by fmt.Scanln
    fs0,        \* the file system when the program started (history)
    fs,         \* the file system: path -> node
    fullDisk,   \* destinations whose device has no room left (io.Copy fails)
    mainPc,     \* position of the main function
    idx,        \* index of the range loop over environments
    wg,         \* the sync.WaitGroup counter
    task,       \* per destination: the copyDirectory activation
    out,        \* standard output up to the completion message, a bag
    git         \* the repository phase of enviorments2remote.go

vars ==
    <<variant, directoryName, fs0, fs, fullDisk, mainPc, idx, wg, task, out,
      git>>

----------------------------------------------------------------------------
(* Bounds of the model.                                                    *)

\* Number of bytes of every source file.
FileLen == 2

\* The longest path the file system accepts, in names; a longer one is
\* refused (ENAMETOOLONG).
MaxPath == 7

----------------------------------------------------------------------------
(* Program constants and inputs.                                           *)

environments == <<"SANDBOX_", "DEV_", "STAGE_", "PREPROD_", "PROD_">>

Envs == 1..Len(environments)

\* The solution name read by fmt.Scanln.
solutionName == "sol"

Variants == {"main", "remote", "seq"}
WaitGroupVariants == {"main", "remote"}

----------------------------------------------------------------------------
(* Paths: filepath.Join, filepath.Base, filepath.Rel.                      *)

Join(p, q) == p \o q

Base(p) == IF p = <<>> THEN "." ELSE p[Len(p)]

Parent(p) == SubSeq(p, 1, Len(p) - 1)

IsPrefix(p, q) == Len(p) <= Len(q) /\ SubSeq(q, 1, Len(p)) = p

\* filepath.Rel(src, path): path made relative to src; an error when path
\* does not lie under src (its result would need "..", which the walk never
\* produces and this model does not represent).
Rel(src, path) ==
    IF IsPrefix(src, path)
    THEN [err |-> "", rel |-> SubSeq(path, Len(src) + 1, Len(path))]
    ELSE [err |-> "rel", rel |-> <<>>]

getDesktopSolutionsPath == Join(<<"home">>, <<"Desktop", "Solutions">>)

solutionPath == Join(getDesktopSolutionsPath, <<solutionName>>)

\* Faulty variant: the prefix is left out of the directory name.
envDirNameBare(i) == Base(directoryName)

\* fmt.Sprintf("%s%s", env, filepath.Base(directoryName))
envDirName(i) == environments[i] \o Base(directoryName)

envDirPath(i) == Join(solutionPath, <<envDirName(i)>>)

----------------------------------------------------------------------------
(* The file system calls.  A node is a directory or a regular file, with   *)
(* its permission bits reduced to read ("r") and write ("w").              *)

Dir(mode) == [kind |-> "dir", data |-> <<>>, mode |-> mode]
File(data, mode) == [kind |-> "file", data |-> data, mode |-> mode]

\* 0755 for directories and 0666 for created files, as far as r/w go.
Perm0755 == {"r", "w"}
Perm0666 == {"r", "w"}

Put(f, p, node) == [q \in DOMAIN f \cup {p} |-> IF q = p THEN node ELSE f[q]]

\* Faulty variant: the check never finds the path missing.
IsNotExistNever(f, p) == FALSE

\* os.Stat followed by os.IsNotExist.
IsNotExist(f, p) == p \notin DOMAIN f

\* info.IsDir()
IsDir(info) == info.kind = "dir"

\* Faulty variant: os.Mkdir, which refuses a directory that exists.
MkdirOne(f, p, mode) ==
    IF \/ p \in DOMAIN f
       \/ Parent(p) \notin DOMAIN f
       \/ ~IsDir(f[Parent(p)])
       \/ "w" \notin f[Parent(p)].mode
       \/ Len(p) > MaxPath
    THEN [err |-> "mkdir", fs |-> f]
    ELSE [err |-> "", fs |-> Put(f, p, Dir(mode))]

\* Faulty variant: the directory is reported as made without being made.
MkdirAllNotMade(f, p, mode) == [err |-> "", fs |-> f]

\* os.MkdirAll(p, mode): nil when p is a directory already; an error when p
\* is a file, a missing ancestor cannot be made or p is too long; otherwise
\* the missing ancestors and p are created with mode.  Directories created
\* before the failure stay.
RECURSIVE MkdirAll(_, _, _)
MkdirAll(f, p, mode) ==
    IF p \in DOMAIN f
    THEN [err |-> IF IsDir(f[p]) THEN "" ELSE "mkdir", fs |-> f]
    ELSE IF p = <<>>
    THEN [err |-> "mkdir", fs |-> f]
    ELSE LET up == MkdirAll(f, Parent(p), mode)
         IN  IF up.err # "" THEN up
             ELSE IF "w" \notin up.fs[Parent(p)].mode \/ Len(p) > MaxPath
             THEN [err |-> "mkdir", fs |-> up.fs]
             ELSE [err |-> "", fs |-> Put(up.fs, p, Dir(mode))]

\* os.Open(p) for reading.
Open(f, p) ==
    IF p \in DOMAIN f /\ "r" \in f[p].mode THEN "" ELSE "open"

\* os.Create(p): creates the file or truncates it.
Create(f, p) ==
    IF p \in DOMAIN f
    THEN IF f[p].kind = "file" /\ "w" \in f[p].mode
         THEN [err |-> "", fs |-> Put(f, p, File(<<>>, f[p].mode))]
         ELSE [err |-> "create", fs |-> f]
    ELSE IF /\ Parent(p) \in DOMAIN f
            /\ IsDir(f[Parent(p)])
            /\ "w" \in f[Parent(p)].mode
            /\ Len(p) <= MaxPath
    THEN [err |-> "", fs |-> Put(f, p, File(<<>>, Perm0666))]
    ELSE [err |-> "create", fs |-> f]

\* Faulty variant: the last byte is not written and no error is returned.
ioCopyShort(f, destPath, data, full, k) ==
    [err |-> "",
     fs |-> Put(f, destPath,
                File(SubSeq(data, 1, Len(data) - 1), f[destPath].mode))]

\* io.Copy(destFile, srcFile): all of data is written, or, on a device
\* without room, the first k bytes are written and an error is returned.
ioCopy(f, destPath, data, full, k) ==
    IF full /\ k < Len(data)
    THEN [err |-> "copy",
          fs |-> Put(f, destPath, File(SubSeq(data, 1, k), f[destPath].mode))]
    ELSE [err |-> "", fs |-> Put(f, destPath, File(data, f[destPath].mode))]

\* All names of the model in the byte order readDirNames sorts by.
SortedNames ==
    <<".git", "DEV_Desktop", "DEV_proj", "Desktop", "PREPROD_Desktop",
      "PREPROD_proj", "PROD_Desktop", "PROD_proj", "SANDBOX_Desktop",
      "SANDBOX_proj", "STAGE_Desktop", "STAGE_proj", "Solutions", "a.txt",
      "b", "c.txt", "home", "proj", "sol", "z.txt">>

\* readDirNames(p): the sorted names of the entries of directory p, or an
\* error when p cannot be read.
readDirNames(f, p) ==
    IF "r" \notin f[p].mode
    THEN [err |-> "walk", names |-> <<>>]
    ELSE [err |-> "",
          names |-> SelectSeq(SortedNames,
                              LAMBDA n : Join(p, <<n>>) \in DOMAIN f)]

----------------------------------------------------------------------------
(* copyDirectory: the callback handed to filepath.Walk.                    *)

\* Faulty variant: the destination file is opened for appending instead of
\* being created or truncated.
WalkFnAppending(f, src, dest, path, info, err, full, k) ==
    IF err # ""
    THEN [err |-> err, fs |-> f]
    ELSE LET r == Rel(src, path)
             destPath == Join(dest, r.rel)
             old == IF destPath \in DOMAIN f THEN f[destPath].data ELSE <<>>
         IN  IF r.err # ""
             THEN [err |-> r.err, fs |-> f]
             ELSE IF IsDir(info)
             THEN MkdirAll(f, destPath, info.mode)
             ELSE IF Open(f, path) # ""
             THEN [err |-> Open(f, path), fs |-> f]
             ELSE LET c == Create(f, destPath)
                  IN  IF c.err # ""
                      THEN c
                      ELSE ioCopy(c.fs, destPath, old \o c.fs[path].data,
                                  full, k)

\* The function literal of copyDirectory, called by the walk with the
\* entry's path, its FileInfo and the walk's own error.  full and k say how
\* io.Copy ends on this destination.
WalkFn(f, src, dest, path, info, err, full, k) ==
    IF err # ""
    THEN [err |-> err, fs |-> f]
    ELSE LET r == Rel(src, path)
             destPath == Join(dest, r.rel)
         IN  IF r.err # ""
             THEN [err |-> r.err, fs |-> f]
             ELSE IF IsDir(info)
             THEN MkdirAll(f, destPath, info.mode)
             ELSE IF Open(f, path) # ""
             THEN [err |-> Open(f, path), fs |-> f]
             ELSE LET c == Create(f, destPath)
                  IN  IF c.err # ""
                      THEN c
                      ELSE ioCopy(c.fs, destPath, c.fs[path].data, full, k)

\* One activation of copyDirectory.  todo is the walk's stack of entries
\* still to visit, seen the entries the callback was called on, err the
\* error the walk returned ("" for nil).
IdleTask == [status |-> "idle", todo |-> <<>>, seen |-> <<>>, err |-> ""]

StartTask(src) ==
    [status |-> "running", todo |-> <<src>>, seen |-> <<>>, err |-> ""]

Walking(t) == t.status = "running" /\ t.todo # <<>>

\* The walk has returned and the rest of copyDirectory is still to run.
Returned(t) == t.status = "running" /\ t.todo = <<>>

Terminal(t) == t.status = "done"

\* Messages on standard output.
Msg(text, arg, err) == [text |-> text, arg |-> arg, err |-> err]

Println(o, m) == o (+) SetToBag({m})

\* Faulty variant: every activation gets the loop's last destination.
TaskDestCaptured(e) == envDirPath(Len(environments))

\* The dest argument of the copyDirectory activation of destination e.
TaskDest(e) == envDirPath(e)

\* Faulty variant: the walk goes on after an error.
WalkRestGoesOn(stop, kids, rest) == kids \o rest

\* filepath.Walk after the callback: the walk returns on an error, and goes
\* on with the entry's children and the rest otherwise.
WalkRest(stop, kids, rest) == IF stop THEN <<>> ELSE kids \o rest

\* Faulty variant: a copy that failed is started again.
EndedOrRetried(t) ==
    IF t.err # ""
    THEN [status |-> "running", todo |-> <<directoryName>>, seen |-> <<>>,
          err |-> ""]
    ELSE [t EXCEPT !.status = "done"]

\* The activation once copyDirectory has returned.
Ended(t) == [t EXCEPT !.status = "done"]

\* The prefix lengths io.Copy may stop at when it fails on path p.
WriteChoices(e, p) ==
    IF /\ e \in fullDisk
       /\ p \in DOMAIN fs
       /\ fs[p].kind = "file"
       /\ Len(fs[p].data) > 0
    THEN 0..(Len(fs[p].data) - 1)
    ELSE {0}

\* filepath.Walk visiting the next entry for destination e: lstat and, for
\* a directory, readDirNames; then the callback; then either the walk ends
\* with the callback's error or the entry's children are pushed.
Visit(e) ==
    /\ Walking(task[e])
    /\ LET t == task[e]
           p == Head(t.todo)
           found == p \in DOMAIN fs
           isdir == found /\ IsDir(fs[p])
           info == IF found THEN fs[p] ELSE File(<<>>, {})
       IN  \E k \in WriteChoices(e, p),
              rd \in {IF isdir THEN readDirNames(fs, p)
                      ELSE [err |-> "", names |-> <<>>]} :
             \E errIn \in {IF ~found THEN "walk" ELSE rd.err} :
               \E r \in {WalkFn(fs, directoryName, TaskDest(e), p, info,
                                errIn, e \in fullDisk, k)} :
                 LET stop == errIn # "" \/ r.err # ""
                     kids == [i \in 1..Len(rd.names) |->
                                Join(p, <<rd.names[i]>>)]
                 IN  /\ fs' = r.fs
                     /\ task' = [task EXCEPT ![e] =
                            [t EXCEPT !.todo = WalkRest(stop, kids,
                                                        Tail(t.todo)),
                                      !.seen = Append(t.seen, p),
                                      !.err = r.err]]
    /\ UNCHANGED <<variant, directoryName, fs0, fullDisk, mainPc,
                   idx, wg, out, git>>

----------------------------------------------------------------------------
(* main: the checks and directories before the loop.                       *)

Return == mainPc' = "done"

\* os.Stat(directoryName) and os.IsNotExist: the program stops when the
\* source is missing.
CheckSource ==
    /\ mainPc = "start"
    /\ IF IsNotExist(fs, directoryName)
       THEN /\ out' = Println(out, Msg("The specified directory does not exist",
                                       <<>>, ""))
            /\ Return
       ELSE /\ out' = out
            /\ mainPc' = "solutions"
    /\ UNCHANGED <<variant, directoryName, fs0, fs, fullDisk,
                   idx, wg, task, git>>

\* The "Solutions" directory is created when it does not exist.
CreateSolutions ==
    /\ mainPc = "solutions"
    /\ IF IsNotExist(fs, getDesktopSolutionsPath)
       THEN LET r == MkdirAll(fs, getDesktopSolutionsPath, Perm0755)
            IN  /\ fs' = r.fs
                /\ IF r.err # ""
                   THEN /\ out' = Println(out,
                              Msg("Failed to create 'Solutions' directory",
                                  <<>>, r.err))
                        /\ Return
                   ELSE /\ out' = out
                        /\ mainPc' = "solution"
       ELSE /\ mainPc' = "solution"
            /\ UNCHANGED <<fs, out>>
    /\ UNCHANGED <<variant, directoryName, fs0, fullDisk, idx, wg, task, git>>

\* The solution directory, then the "Hang tight" notice.
CreateSolution ==
    /\ mainPc = "solution"
    /\ LET r == MkdirAll(fs, solutionPath, Perm0755)
       IN  /\ fs' = r.fs
           /\ IF r.err # ""
              THEN /\ out' = Println(out,
                         Msg("Failed to create solution directory", <<>>,
                             r.err))
                   /\ Return
              ELSE /\ out' = Println(out, Msg("Hang tight", <<>>, ""))
                   /\ mainPc' = "loop"
    /\ UNCHANGED <<variant, directoryName, fs0, fullDisk, idx, wg, task, git>>

----------------------------------------------------------------------------
(* main.go and enviorments2remote.go: the loop, the goroutines, the join.  *)

\* Faulty variant: main leaves the loop when the environment directory of
\* iteration i could not be made.
AfterIterationOrBreak(i) ==
    /\ idx' = i + 1
    /\ mainPc' = IF i = Len(environments) \/ task'[i].status = "idle"
                 THEN "wait" ELSE "loop"

\* After the body of iteration i: the next iteration, or past the loop.
AfterIteration(i) ==
    /\ idx' = i + 1
    /\ mainPc' = IF i = Len(environments) THEN "wait" ELSE "loop"

\* Faulty variant: the counter is not raised.
AddForgotten(counter, delta) == counter

\* wg.Add(delta) and wg.Done() on the counter.
Add(counter, delta) == counter + delta

\* Faulty variant: Done is called explicitly and once more by the defer.
DoneTwice(counter) == counter - 2

\* Faulty variant: the counter is not lowered when the goroutine ends.
DoneForgotten(counter) == counter

Done(counter) == counter - 1

\* Faulty variant: the iteration waits for the copies dispatched before it.
CanDispatchOneByOne ==
    /\ mainPc = "loop"
    /\ \A e \in 1..Len(environments) : task[e].status # "running"

\* What lets an iteration of the WaitGroup variants' loop start: nothing
\* but main being in the loop.
CanDispatch == mainPc = "loop"

\* One iteration: MkdirAll of the environment directory; on an error the
\* message and continue; otherwise the notice, wg.Add(1) and the go
\* statement.
Dispatch ==
    /\ variant \in WaitGroupVariants
    /\ CanDispatch
    /\ LET r == MkdirAll(fs, envDirPath(idx), Perm0755)
       IN  /\ fs' = r.fs
           /\ IF r.err # ""
              THEN /\ out' = Println(out,
                         Msg("Failed to create environment directory",
                             <<envDirName(idx)>>, r.err))
                   /\ UNCHANGED <<wg, task>>
              ELSE /\ out' = Println(out,
                         Msg("Still cooking", <<envDirName(idx)>>, ""))
                   /\ wg' = Add(wg, 1)
                   /\ task' = [task EXCEPT ![idx] = StartTask(directoryName)]
    /\ AfterIteration(idx)
    /\ UNCHANGED <<variant, directoryName, fs0, fullDisk, git>>

\* Faulty variant: the error is dropped.
ReportNothing(o, e) == o

\* What copyDirectory prints once the walk has returned.
Report(o, e) ==
    IF task[e].err # ""
    THEN Println(o, Msg("Error copying directory", TaskDest(e),
                        task[e].err))
    ELSE o

\* The end of the goroutine of destination e: the error message, if any,
\* and the deferred wg.Done().
Finish(e) ==
    /\ variant \in WaitGroupVariants
    /\ Returned(task[e])
    /\ out' = Report(out, e)
    /\ wg' = Done(wg)
    /\ task' = [task EXCEPT ![e] = Ended(task[e])]
    /\ UNCHANGED <<variant, directoryName, fs0, fs, fullDisk, mainPc, idx, git>>

\* Faulty variant: Wait returns without looking at the counter.
WaitReturnsAtOnce == wg >= 0

\* wg.Wait() returns when the counter is zero.
WaitReturns == wg = 0

\* The repository phase: the environment of the loop, the call main is
\* at, the answer typed for that environment, the GITHUB_TOKEN once read,
\* the commands the last setupGitForEnv ran, and the last line the phase
\* printed.
NoGit ==
    [i |-> 1, pc |-> "off", answer |-> "", token |-> "unread",
     steps |-> <<>>, said |-> [text |-> "", arg |-> <<>>, err |-> ""]]

\* wg.Wait() and the completion message.
Wait ==
    /\ variant \in WaitGroupVariants
    /\ mainPc = "wait"
    /\ WaitReturns
    /\ out' = Println(out, Msg("Environment setup completed successfully!",
                               <<>>, ""))
    /\ IF variant = "remote"
       THEN /\ mainPc' = "git"
            /\ git' = [git EXCEPT !.pc = "prompt"]
       ELSE /\ Return
            /\ git' = git
    /\ UNCHANGED <<variant, directoryName, fs0, fs, fullDisk, idx, wg, task>>

----------------------------------------------------------------------------
(* The third variant: copyDirectory is called, not spawned.                *)

\* Faulty variant: the copy is started as a goroutine and main goes on.
CallAsGo == AfterIteration(idx)

\* copyDirectory(directoryName, envDirPath) is an ordinary call: main is
\* inside it until it returns.
Call ==
    /\ mainPc' = "copy"
    /\ idx' = idx

\* One iteration up to the call of copyDirectory.
SeqIteration ==
    /\ variant = "seq"
    /\ mainPc = "loop"
    /\ LET r == MkdirAll(fs, envDirPath(idx), Perm0755)
       IN  /\ fs' = r.fs
           /\ IF r.err # ""
              THEN /\ out' = Println(out,
                         Msg("Failed to create environment directory",
                             <<envDirName(idx)>>, r.err))
                   /\ task' = task
                   /\ AfterIteration(idx)
              ELSE /\ out' = Println(out, Msg("Still cooking", <<>>, ""))
                   /\ task' = [task EXCEPT ![idx] = StartTask(directoryName)]
                   /\ Call
    /\ UNCHANGED <<variant, directoryName, fs0, fullDisk, wg, git>>

\* copyDirectory returns to main: the message on an error, and continue.
SeqReturn ==
    /\ variant = "seq"
    /\ mainPc = "copy"
    /\ Returned(task[idx])
    /\ out' = IF task[idx].err # ""
              THEN Println(out, Msg("Failed to copy directory",
                                    TaskDest(idx), task[idx].err))
              ELSE out
    /\ task' = [task EXCEPT ![idx] = Ended(task[idx])]
    /\ AfterIteration(idx)
    /\ UNCHANGED <<variant, directoryName, fs0, fs, fullDisk, wg, git>>

\* The completion message after the loop.
SeqComplete ==
    /\ variant = "seq"
    /\ mainPc = "wait"
    /\ out' = Println(out, Msg("Environment setup completed successfully!",
                               <<>>, ""))
    /\ Return
    /\ UNCHANGED <<variant, directoryName, fs0, fs, fullDisk,
                   idx, wg, task, git>>

----------------------------------------------------------------------------
(* enviorments2remote.go: the repository phase after the join.             *)

\* What the user may type at the prompt, and strings.ToLower on it.
Answers == {"y", "Y", "n"}

ToLower(a) == IF a = "Y" THEN "y" ELSE a

\* The commands of setupGitForEnv in the order of the code.
GitCommands == <<"init", "add", "commit", "remote add", "push">>

\* How client.Do and the status check of createGitHubRepo may end.
HttpOutcomes == {"created", "request failed", "status not 201"}

\* Faulty variant: main returns when createGitHubRepo or setupGitForEnv
\* has failed.
NextEnvironmentOrReturn(g) ==
    IF g.i = Len(environments) \/ (g.pc # "prompt" /\ g.said.err # "")
    THEN /\ git' = [g EXCEPT !.pc = "off", !.answer = ""]
         /\ Return
    ELSE /\ git' = [g EXCEPT !.i = g.i + 1, !.pc = "prompt", !.answer = ""]
         /\ mainPc' = mainPc

\* The loop's next environment, or the end of main.
NextEnvironment(g) ==
    IF g.i = Len(environments)
    THEN /\ git' = [g EXCEPT !.pc = "off", !.answer = ""]
         /\ Return
    ELSE /\ git' = [g EXCEPT !.i = g.i + 1, !.pc = "prompt", !.answer = ""]
         /\ mainPc' = mainPc

\* promptForGitRepo(envDirName)
promptForGitRepo ==
    /\ mainPc = "git"
    /\ git.pc = "prompt"
    /\ \E answer \in Answers :
         IF ToLower(answer) = "y"
         THEN /\ git' = [git EXCEPT !.pc = "create", !.steps = <<>>,
                                    !.answer = answer]
              /\ mainPc' = mainPc
         ELSE NextEnvironment([git EXCEPT !.steps = <<>>])
    /\ UNCHANGED <<variant, directoryName, fs0, fs, fullDisk,
                   idx, wg, task, out>>

\* createGitHubRepo(envDirName): the token is read from the environment
\* (the same value at every call); without it, or when the request fails,
\* main prints the error and continues with the next environment.
createGitHubRepo ==
    /\ mainPc = "git"
    /\ git.pc = "create"
    /\ \E token \in IF git.token = "unread" THEN {"set", ""} ELSE {git.token},
          http \in HttpOutcomes :
         LET err == IF token = "" THEN "GitHub token is required"
                    ELSE IF http = "created" THEN "" ELSE http
             g == [git EXCEPT !.token = token]
         IN  IF err # ""
             THEN NextEnvironment([g EXCEPT !.said =
                      Msg("Error creating GitHub repository",
                          <<envDirName(git.i)>>, err)])
             ELSE /\ git' = [g EXCEPT !.pc = "setup", !.said =
                                Msg("Successfully created GitHub repository",
                                    <<envDirName(git.i)>>, "")]
                  /\ mainPc' = mainPc
    /\ UNCHANGED <<variant, directoryName, fs0, fs, fullDisk,
                   idx, wg, task, out>>

\* setupGitForEnv(envDirName, solutionPath): the commands run in order and
\* the first one that fails ends the function; n of them succeed.
setupGitForEnv ==
    /\ mainPc = "git"
    /\ git.pc = "setup"
    /\ \E n \in 0..Len(GitCommands) :
         LET failed == n < Len(GitCommands)
             ran == SubSeq(GitCommands, 1, IF failed THEN n + 1 ELSE n)
         IN  NextEnvironment([git EXCEPT !.steps = ran, !.said =
                 IF failed
                 THEN Msg("Error setting up git", <<envDirName(git.i)>>,
                          GitCommands[n + 1])
                 ELSE Msg("Successfully pushed", <<envDirName(git.i)>>, "")])
    /\ UNCHANGED <<variant, directoryName, fs0, fs, fullDisk,
                   idx, wg, task, out>>

----------------------------------------------------------------------------
(* The states the programs start in.                                       *)

DataA == [i \in 1..FileLen |-> i]
DataC == [i \in 1..FileLen |-> FileLen + i]
OldData == <<0>>

All == {"r", "w"}

\* The source: proj/a.txt, proj/b/, proj/b/c.txt; on request missing, or
\* with an unreadable file, an unreadable directory or a read-only one.
SrcConds == {"ok", "missing", "unreadable file", "unreadable dir",
             "read-only dir"}

SourceTree(c) ==
    IF c = "missing" THEN <<>> :> Dir(All)
    ELSE (<<"proj">> :> Dir(All))
      @@ (<<"proj", "a.txt">> :> File(DataA, All))
      @@ (<<"proj", "b">> :>
            Dir(CASE c = "unreadable dir" -> {"w"}
                  [] c = "read-only dir" -> {"r"}
                  [] OTHER -> All))
      @@ (<<"proj", "b", "c.txt">> :>
            File(DataC, IF c = "unreadable file" THEN {"w"} ELSE All))

\* The desktop: without "Solutions", with the solution directory already
\* there, or with a directory that cannot be written into.
WsConds == {"absent", "present", "read-only Desktop", "read-only Solutions",
            "read-only solution"}

Workspace(c) ==
    (<<>> :> Dir(All)) @@ (<<"home">> :> Dir(All))
      @@ (<<"home", "Desktop">> :>
            Dir(IF c = "read-only Desktop" THEN {"r"} ELSE All))
      @@ (IF c \in {"present", "read-only Solutions", "read-only solution"}
          THEN getDesktopSolutionsPath :>
                 Dir(IF c = "read-only Solutions" THEN {"r"} ELSE All)
          ELSE <<>> :> Dir(All))
      @@ (IF c \in {"present", "read-only solution"}
          THEN solutionPath :> Dir(IF c = "present" THEN All ELSE {"r"})
          ELSE <<>> :> Dir(All))

\* One destination left over from an earlier run or otherwise not fresh.
DestConds == {"stale", "read-only", "blocked", "dir at a.txt", "file at b",
              "full disk"}

Destination(e, c) ==
    LET d == envDirPath(e)
    IN  CASE c = "stale" ->
               (d :> Dir(All)) @@ (Join(d, <<"z.txt">>) :> File(OldData, All))
                 @@ (Join(d, <<"a.txt">>) :> File(OldData, All))
          [] c = "read-only" -> d :> Dir({"r"})
          [] c = "blocked" -> d :> File(OldData, All)
          [] c = "dir at a.txt" ->
               (d :> Dir(All)) @@ (Join(d, <<"a.txt">>) :> Dir(All))
          [] c = "file at b" ->
               (d :> Dir(All)) @@ (Join(d, <<"b">>) :> File(OldData, All))
          [] OTHER -> <<>> :> Dir(All)

\* The destination that is not fresh: any one in the sequential variant,
\* where the order of the copies matters; the first or the last dispatched
\* one in main.go, which runs the copies side by side; the first one in
\* enviorments2remote.go, which has the code of main.go up to the join.
BadEnvs(v) ==
    CASE v = "seq" -> Envs
      [] v = "main" -> {1, Len(environments)}
      [] OTHER -> {1}

\* The start states: every source and desktop condition with fresh
\* destinations, every condition of one destination with the others
\* fresh, and, in the sequential variant, the desktop itself given as the
\* source.
Scenarios(v) ==
    [dir : {<<"proj">>}, src : SrcConds, ws : {"absent"}, bad : {0},
     dest : {"fresh"}]
    \cup [dir : {<<"proj">>}, src : {"ok"}, ws : WsConds, bad : {0},
          dest : {"fresh"}]
    \cup [dir : {<<"proj">>}, src : {"ok"}, ws : {"present"},
          bad : BadEnvs(v), dest : DestConds]
    \cup [dir : IF v = "seq" THEN {<<"home", "Desktop">>} ELSE {},
          src : {"ok"}, ws : {"absent"}, bad : {0}, dest : {"fresh"}]

InitFs(s) ==
    IF s.bad = 0
    THEN SourceTree(s.src) @@ Workspace(s.ws)
    ELSE SourceTree(s.src) @@ Workspace(s.ws) @@ Destination(s.bad, s.dest)

Init ==
    /\ variant \in Variants
    /\ \E s \in Scenarios(variant) :
         /\ directoryName = s.dir
         /\ fs0 = InitFs(s)
         /\ fs = fs0
         /\ fullDisk = IF s.dest = "full disk" THEN {s.bad} ELSE {}
    /\ mainPc = "start"
    /\ idx = 1
    /\ wg = 0
    /\ task = [e \in Envs |-> IdleTask]
    /\ out = EmptyBag
    /\ git = NoGit

Next ==
    \/ CheckSource
    \/ CreateSolutions
    \/ CreateSolution
    \/ Dispatch
    \/ \E e \in Envs : Visit(e)
    \/ \E e \in Envs : Finish(e)
    \/ Wait
    \/ SeqIteration
    \/ SeqReturn
    \/ SeqComplete
    \/ promptForGitRepo
    \/ createGitHubRepo
    \/ setupGitForEnv

Spec == Init /\ [][Next]_vars

----------------------------------------------------------------------------
(* Vocabulary of the properties.                                           *)

Running(e) == task[e].status = "running"

Dispatched(e) == task[e].status # "idle"

Succeeded(e) == Terminal(task[e]) /\ task[e].err = ""

Failed(e) == Terminal(task[e]) /\ task[e].err # ""

\* main has left the loop over environments and passed the join (or, in
\* the sequential variant, the end of the loop).
PastJoin == idx = Len(environments) + 1 /\ mainPc \in {"git", "done"}

Completed ==
    BagIn(Msg("Environment setup completed successfully!", <<>>, ""), out)

\* The tree under root in file system f: relative path -> kind and bytes.
Tree(f, root) ==
    LET under == {p \in DOMAIN f : IsPrefix(root, p)}
    IN  [r \in {Rel(root, p).rel : p \in under} |->
           [kind |-> f[Join(root, r)].kind, data |-> f[Join(root, r)].data]]

\* The failure reports on standard output that name destination e, and
\* their number.
FailureReports(e) ==
    {m \in BagToSet(out) :
        \/ m.text = "Failed to create environment directory"
             /\ m.arg = <<envDirName(e)>>
        \/ m.text \in {"Error copying directory", "Failed to copy directory"}
             /\ m.arg = envDirPath(e)}

ReportCount(e) == BagCardinality([m \in FailureReports(e) |-> out[m]])

----------------------------------------------------------------------------
(* C1: in main.go and enviorments2remote.go, once main is past wg.Wait()   *)
(* no dispatched copyDirectory is still running: each one has ended, with  *)
(* or without an error.                                                    *)
C1_JoinBarrier ==
    (variant \in WaitGroupVariants /\ (PastJoin \/ Completed))
        => \A e \in Envs : Dispatched(e) => Terminal(task[e])

\* Past the join with a copy that failed and one that succeeded.
C1_Witness ==
    /\ variant \in WaitGroupVariants
    /\ PastJoin
    /\ Completed
    /\ \E e, d \in Envs : Failed(e) /\ Succeeded(d)

(* C2: in the WaitGroup variants an iteration of the loop never waits for  *)
(* a copy dispatched earlier: while main is in the loop its next iteration *)
(* can run whatever the goroutines are doing, so all five copies can be    *)
(* running at once.                                                        *)
C2_FanOut ==
    (variant \in WaitGroupVariants /\ mainPc = "loop") => ENABLED Dispatch

\* All five copies dispatched, none ended, main at wg.Wait().
C2_Witness ==
    /\ variant \in WaitGroupVariants
    /\ mainPc = "wait"
    /\ wg = Len(environments)
    /\ \A e \in Envs : Running(e)

(* C3 as stated: the third variant starts the copy of the next            *)
(* destination while the copy of an earlier one is still running, and      *)
(* prints the completion message only when every copy has ended.           *)
C3_ConcurrentWithBarrier ==
    variant = "seq" =>
        /\ ((\E e \in Envs : Running(e)) /\ idx < Len(environments))
               => ENABLED SeqIteration
        /\ Completed => \A e \in Envs : ~Running(e)

(* C3, amended: the third variant copies one destination at a time.  main  *)
(* is inside copyDirectory for as long as a copy runs, so no iteration     *)
(* starts while a copy is running and at most one copy runs at any time;   *)
(* the completion message is printed only when every copy has ended.       *)
C3_SequentialWithBarrier ==
    variant = "seq" =>
        /\ \A e \in Envs : Running(e) => (e = idx /\ mainPc = "copy")
        /\ (\E e \in Envs : Running(e)) => ~ENABLED SeqIteration
        /\ \A e \in Envs : (Dispatched(e) /\ e < idx) => Terminal(task[e])
        /\ Completed => \A e \in Envs : ~Running(e)

\* The third copy under way, the first two ended, two not yet started.
C3_Witness ==
    /\ variant = "seq"
    /\ idx = 3
    /\ Running(3) /\ Len(task[3].seen) > 1
    /\ Terminal(task[1]) /\ Terminal(task[2])
    /\ ~Dispatched(4) /\ ~Dispatched(5)

\* The conditions a copy meets, read off the file system at the start:
\* every source entry can be read and written; destination e does not lie
\* inside the source, nothing under it is read-only or of another kind
\* than the source entry of that path, and its device has room;
\* destination e is a directory one cannot write into.
SourceSound ==
    /\ directoryName \in DOMAIN fs0
    /\ \A p \in DOMAIN fs0 : IsPrefix(directoryName, p) => fs0[p].mode = All

DestSound(e) ==
    /\ e \notin fullDisk
    /\ ~IsPrefix(directoryName, envDirPath(e))
    /\ \A p \in DOMAIN fs0 :
         IsPrefix(envDirPath(e), p) =>
           LET sp == Join(directoryName, Rel(envDirPath(e), p).rel)
           IN  /\ "w" \in fs0[p].mode
               /\ sp \in DOMAIN fs0 => fs0[sp].kind = fs0[p].kind

Unwritable(e) ==
    /\ envDirPath(e) \in DOMAIN fs0
    /\ IsDir(fs0[envDirPath(e)])
    /\ "w" \notin fs0[envDirPath(e)].mode

(* C4: a failure stays with its destination.  A copy whose own source and  *)
(* destination are in order ends without an error and without a failure    *)
(* report whatever happens to the others; once the copy into an unwritable *)
(* destination has failed, every other copy still walking can take its     *)
(* next step; a copy whose walk has returned can end, main in the loop can *)
(* run its next iteration and main at the join can pass it once no copy is *)
(* running, whoever has failed; and with exactly one destination           *)
(* unwritable the run ends with exactly one failure report, naming that    *)
(* destination, and every other copy succeeded.                            *)
C4_Isolation ==
    /\ \A j \in Envs :
         (SourceSound /\ DestSound(j) /\ Terminal(task[j]))
             => (task[j].err = "" /\ ReportCount(j) = 0)
    /\ \A i, j \in Envs :
         (Unwritable(i) /\ task[i].err # "" /\ j # i /\ Walking(task[j]))
             => ENABLED Visit(j)
    /\ \A j \in Envs :
         Returned(task[j]) => ENABLED (Finish(j) \/ SeqReturn)
    /\ mainPc = "loop" => ENABLED (Dispatch \/ SeqIteration)
    /\ (mainPc = "wait" /\ \A e \in Envs : ~Running(e))
           => ENABLED (Wait \/ SeqComplete)
    /\ \A i \in Envs :
         (/\ PastJoin
          /\ SourceSound
          /\ Unwritable(i)
          /\ \A j \in Envs \ {i} : DestSound(j))
             => /\ Failed(i)
                /\ ReportCount(i) = 1
                /\ \A j \in Envs \ {i} : Succeeded(j) /\ ReportCount(j) = 0

\* The run is over, the last destination was unwritable and failed, the
\* four others succeeded.
C4_Witness ==
    /\ PastJoin
    /\ Unwritable(Len(environments))
    /\ Failed(Len(environments))
    /\ ReportCount(Len(environments)) = 1
    /\ \A j \in 1..(Len(environments) - 1) : Succeeded(j)

(* C5 as stated: after a copy that succeeded the tree under the            *)
(* destination equals the source tree.                                     *)
C5_DestinationEqualsSource ==
    \A e \in Envs :
        Succeeded(e) => Tree(fs, envDirPath(e)) = Tree(fs0, directoryName)

(* C5, amended: after a copy that succeeded the tree under the destination *)
(* contains the source tree: every file of the source is there at the same *)
(* relative path with the same bytes and every directory at the same       *)
(* relative path.  Whatever else is under the destination was there before *)
(* the copy and is unchanged, so the two trees are equal exactly when the  *)
(* destination held nothing outside the source's paths.                    *)
C5_DestinationContainsSource ==
    \A e \in Envs :
        Succeeded(e) =>
            LET T == Tree(fs0, directoryName)
                D == Tree(fs, envDirPath(e))
                D0 == Tree(fs0, envDirPath(e))
            IN  /\ \A r \in DOMAIN T : r \in DOMAIN D /\ D[r] = T[r]
                /\ \A r \in DOMAIN D \ DOMAIN T :
                      r \in DOMAIN D0 /\ D[r] = D0[r]
                /\ (D = T) <=> (DOMAIN D0 \subseteq DOMAIN T)

\* A copy succeeded into a destination left over from an earlier run: the
\* old a.txt is overwritten and the stray z.txt is still there.
C5_Witness ==
    \E e \in Envs :
        /\ Succeeded(e)
        /\ Join(envDirPath(e), <<"z.txt">>) \in DOMAIN fs
        /\ fs0[Join(envDirPath(e), <<"a.txt">>)].data = OldData
        /\ fs[Join(envDirPath(e), <<"a.txt">>)].data = DataA
        /\ fs[Join(envDirPath(e), <<"b", "c.txt">>)].data = DataC

\* What the copy into destination e has put where source entry p belongs:
\* the entry as it was at the start or, if made during the run, as it is.
InPlace(e, p) ==
    LET dp == Join(envDirPath(e), Rel(directoryName, p).rel)
        sp == IF p \in DOMAIN fs0 THEN fs0[p] ELSE fs[p]
    IN  /\ dp \in DOMAIN fs
        /\ fs[dp].kind = sp.kind
        /\ fs[dp].data = sp.data

(* C6: the walk of a copy ends with the first error.  From the state in    *)
(* which the error is set on, the walk has nothing left to visit, no       *)
(* further entry is handed to the callback, the error stays as it is, and  *)
(* the tree under that destination never changes again: the entries copied *)
(* before the failing one stay in place and nothing is rolled back.  When  *)
(* the copy has ended the error has been reported once.                    *)
C6_AbortOnFirstError ==
    /\ [](\A e \in Envs :
            task[e].err # "" =>
              /\ task[e].todo = <<>>
              /\ \A i \in 1..(Len(task[e].seen) - 1) :
                    InPlace(e, task[e].seen[i])
              /\ Terminal(task[e]) => ReportCount(e) = 1)
    /\ [][\A e \in Envs :
            task[e].err # "" =>
              /\ task'[e].seen = task[e].seen
              /\ task'[e].err = task[e].err
              /\ Tree(fs', envDirPath(e)) = Tree(fs, envDirPath(e))]_vars

\* The run is over; one copy failed in io.Copy on a.txt, of which the
\* first byte is on the disk; b, the next entry, was never created.
C6_Witness ==
    \E e \in Envs :
        /\ PastJoin
        /\ Failed(e)
        /\ task[e].err = "copy"
        /\ task[e].seen = <<<<"proj">>, <<"proj", "a.txt">>>>
        /\ fs[Join(envDirPath(e), <<"a.txt">>)].data = <<1>>
        /\ Join(envDirPath(e), <<"b">>) \notin DOMAIN fs
        /\ ReportCount(e) = 1

(* C7 as stated: a run over the five destinations produces exactly one     *)
(* outcome report per destination, for the successful ones too.            *)
C7_OneOutcomePerDestination ==
    PastJoin => \A e \in Envs : ReportCount(e) = 1

(* C7, amended: a run over the five destinations reports failures only.    *)
(* A destination whose environment directory could not be created or whose *)
(* copy failed has exactly one report, which names it; a destination whose *)
(* copy succeeded has none.  The number of reports is the number of failed *)
(* destinations, not N.                                                    *)
C7_OneReportPerFailure ==
    /\ \A e \in Envs : ReportCount(e) <= 1
    /\ PastJoin =>
         \A e \in Envs :
            /\ ~Dispatched(e) =>
                 /\ ReportCount(e) = 1
                 /\ \A m \in FailureReports(e) :
                       m.text = "Failed to create environment directory"
            /\ Failed(e) =>
                 /\ ReportCount(e) = 1
                 /\ \A m \in FailureReports(e) :
                       m.arg = envDirPath(e) /\ m.err = task[e].err
            /\ Succeeded(e) => ReportCount(e) = 0

\* The run is over: one destination could not be created, one copy failed
\* or not, and a copy that succeeded left no report.
C7_Witness ==
    /\ PastJoin
    /\ variant \in WaitGroupVariants
    /\ \E e, d \in Envs :
          /\ ~Dispatched(e) /\ ReportCount(e) = 1
          /\ Succeeded(d) /\ ReportCount(d) = 0

\* The failure of the copy into destination e is on standard output.
CopyReported(e) ==
    \E m \in FailureReports(e) :
        m.text \in {"Error copying directory", "Failed to copy directory"}

(* C8 as stated: no copy outcome is reported before every dispatched copy  *)
(* has ended.                                                              *)
C8_ReportAfterJoin ==
    \A e \in Envs : CopyReported(e) => \A d \in Envs : ~Running(d)

(* C8, amended: the failure of a copy is reported when that copy ends, by  *)
(* its own goroutine before wg.Done() (by main right after the call in the *)
(* third variant), so the report can appear while other copies are still   *)
(* running; it is on standard output exactly from the state on in which    *)
(* that copy has ended with an error.  Past the join nothing more is       *)
(* reported about any copy, and a copy that has ended is never started     *)
(* again.                                                                  *)
C8_ReportWhenCopyEnds ==
    /\ [](\A e \in Envs : CopyReported(e) <=> Failed(e))
    /\ [][\A e \in Envs : Terminal(task[e]) => task'[e] = task[e]]_vars
    /\ [][PastJoin => out' = out]_vars

\* A failed copy has been reported while another copy is still running and
\* main waits at the join.
C8_Witness ==
    /\ variant \in WaitGroupVariants
    /\ mainPc = "wait"
    /\ \E e, d \in Envs : Failed(e) /\ CopyReported(e) /\ Running(d)

(* C9: in enviorments2remote.go no step of the repository phase            *)
(* (promptForGitRepo, createGitHubRepo, setupGitForEnv) happens while a    *)
(* copy is running: when main is in that phase every dispatched copy has   *)
(* ended and every failure has been reported; and a step of the phase      *)
(* leaves the copies, their reports and the file tree as they were.        *)
C9_ProvisionerAfterCopies ==
    /\ []((mainPc = "git" \/ git.pc # "off" \/ git.said.text # "")
            => /\ variant = "remote"
               /\ Completed
               /\ \A e \in Envs : ~Running(e)
               /\ \A e \in Envs : Failed(e) => ReportCount(e) = 1)
    /\ [][mainPc = "git" => (task' = task /\ out' = out /\ fs' = fs)]_vars

\* The first environment has been pushed, main asks about a later one, and
\* one of the copies had failed.
C9_Witness ==
    /\ mainPc = "git"
    /\ git.i > 1
    /\ git.steps = GitCommands
    /\ \E e \in Envs : Failed(e)

(* C10: when the source path does not exist the program prints the one     *)
(* message and returns: nothing is created in the file system, no copy is  *)
(* dispatched, the repository phase is not entered and the completion      *)
(* message is not printed.                                                 *)
C10_MissingSource ==
    directoryName \notin DOMAIN fs0 =>
        /\ fs = fs0
        /\ \A e \in Envs : ~Dispatched(e)
        /\ wg = 0
        /\ mainPc \in {"start", "done"}
        /\ git.pc = "off"
        /\ ~Completed
        /\ mainPc = "done" =>
             out = SetToBag({Msg("The specified directory does not exist",
                                 <<>>, "")})

\* The program has returned for a missing source.
C10_Witness ==
    /\ directoryName \notin DOMAIN fs0
    /\ mainPc = "done"
    /\ BagCardinality(out) = 1

\* Where the copy into destination e puts source entry p.
DestOf(e, p) == Join(envDirPath(e), Rel(directoryName, p).rel)

(* C11: within the walk of one copy the parent comes before the child.     *)
(* Every entry still to be visited, and every entry visited, other than    *)
(* the source root has its parent among the entries visited before it, and *)
(* the destination directory of the parent of an entry still to be visited *)
(* exists; and whenever a path appears below a destination root its parent *)
(* was a directory already in the state before, so nothing is created      *)
(* inside a destination directory that does not exist yet.                 *)
C11_ParentBeforeChild ==
    /\ [](\A e \in Envs :
            /\ \A i \in 1..Len(task[e].todo) :
                 LET p == task[e].todo[i]
                 IN  p # directoryName =>
                       /\ \E j \in 1..Len(task[e].seen) :
                             task[e].seen[j] = Parent(p)
                       /\ DestOf(e, Parent(p)) \in DOMAIN fs
                       /\ IsDir(fs[DestOf(e, Parent(p))])
            /\ \A i \in 1..Len(task[e].seen) :
                 task[e].seen[i] # directoryName =>
                    \E j \in 1..(i - 1) :
                       task[e].seen[j] = Parent(task[e].seen[i]))
    /\ [][\A p \in DOMAIN fs' \ DOMAIN fs :
            (\E e \in Envs : IsPrefix(envDirPath(e), p) /\ p # envDirPath(e))
               => (Parent(p) \in DOMAIN fs /\ IsDir(fs[Parent(p)]))]_vars

\* A copy has created b and then b/c.txt below its destination, while
\* another copy has made b and has c.txt still to visit.
C11_Witness ==
    \E e, d \in Envs :
        /\ task[e].seen = <<directoryName, Join(directoryName, <<"a.txt">>),
                            Join(directoryName, <<"b">>),
                            Join(directoryName, <<"b", "c.txt">>)>>
        /\ DestOf(e, Join(directoryName, <<"b", "c.txt">>)) \in DOMAIN fs
        /\ DestOf(e, Join(directoryName, <<"b">>)) \notin DOMAIN fs0
        /\ Walking(task[d])
        /\ Head(task[d].todo) = Join(directoryName, <<"b", "c.txt">>)
        /\ DestOf(d, Join(directoryName, <<"b">>)) \in DOMAIN fs
        /\ DestOf(d, Join(directoryName, <<"b", "c.txt">>)) \notin DOMAIN fs

----------------------------------------------------------------------------
(* copyDirectory called twice in a row on one destination.                 *)

\* The source trees: every part of the model's tree that is closed under
\* parents, with every permission condition.
Shapes ==
    {S \in SUBSET DOMAIN SourceTree("ok") :
        /\ <<"proj">> \in S
        /\ \A p \in S : p # <<"proj">> => Parent(p) \in S}

SourceTrees ==
    {[p \in S |-> SourceTree(c)[p]] :
        S \in Shapes, c \in SrcConds \ {"missing"}}

\* copyDirectory(src, d1) is under way, to be called a second time when it
\* has returned; copyDirectory(src, d2) is under way and called once.  Both
\* destinations are empty directories.
TwiceInit ==
    /\ variant = "seq"
    /\ directoryName = <<"proj">>
    /\ \E t \in SourceTrees :
         fs0 = t @@ Workspace("present")
                 @@ (envDirPath(1) :> Dir(All)) @@ (envDirPath(2) :> Dir(All))
    /\ fs = fs0
    /\ fullDisk = {}
    /\ mainPc = "first call"
    /\ idx = 1
    /\ wg = 0
    /\ task = [e \in Envs |-> IF e \in {1, 2} THEN StartTask(directoryName)
                              ELSE IdleTask]
    /\ out = EmptyBag
    /\ git = NoGit

\* The first call on destination 1 has returned: the second call.
CopyAgain ==
    /\ mainPc = "first call"
    /\ Returned(task[1])
    /\ mainPc' = "second call"
    /\ task' = [task EXCEPT ![1] = StartTask(directoryName)]
    /\ UNCHANGED <<variant, directoryName, fs0, fs, fullDisk,
                   idx, wg, out, git>>

\* The last call on destination e returns.
CopyEnds(e) ==
    /\ Returned(task[e])
    /\ e = 1 => mainPc = "second call"
    /\ task' = [task EXCEPT ![e] = Ended(task[e])]
    /\ UNCHANGED <<variant, directoryName, fs0, fs, fullDisk,
                   mainPc, idx, wg, out, git>>

TwiceNext ==
    \/ \E e \in Envs : Visit(e)
    \/ CopyAgain
    \/ \E e \in Envs : CopyEnds(e)

TwiceSpec == TwiceInit /\ [][TwiceNext]_vars

(* C12: the copy is idempotent.  For every source tree, when copyDirectory *)
(* has been run twice in a row into a destination that was empty and once  *)
(* into another destination that was empty, the two destinations hold the  *)
(* same tree (the same relative paths, kinds and bytes) and the second run *)
(* has returned what the single run returned.                              *)
C12_Idempotent ==
    (mainPc = "second call" /\ Terminal(task[1]) /\ Terminal(task[2])) =>
        /\ Tree(fs, envDirPath(1)) = Tree(fs, envDirPath(2))
        /\ task[1].err = task[2].err

\* Both runs on destination 1 and the single run on destination 2 have
\* ended without an error: both hold a.txt and b/c.txt with the source's
\* bytes.
C12_Witness ==
    /\ mainPc = "second call"
    /\ Terminal(task[1]) /\ Terminal(task[2])
    /\ task[1].err = ""
    /\ Len(task[1].seen) = Cardinality(DOMAIN SourceTree("ok"))
    /\ fs[Join(envDirPath(1), <<"a.txt">>)].data = DataA
    /\ fs[Join(envDirPath(2), <<"b", "c.txt">>)].data = DataC

(* C13 as stated: the source tree is never mutated.  In every reachable    *)
(* state, whatever source path was typed, the entries under the source     *)
(* root are those of the start and each has the kind, bytes and mode it    *)
(* had.  (It fails when the source path is the desktop, an ancestor of     *)
(* Solutions/<solution name>: main creates the solution and environment    *)
(* directories below the source root and the copies copy them into         *)
(* themselves until the paths are too long.)                               *)
C13_SourceNotMutated ==
    directoryName \in DOMAIN fs0 =>
        /\ {p \in DOMAIN fs : IsPrefix(directoryName, p)}
              = {p \in DOMAIN fs0 : IsPrefix(directoryName, p)}
        /\ \A p \in DOMAIN fs0 : IsPrefix(directoryName, p) => fs[p] = fs0[p]

\* The paths that were under destination e at the start and correspond to
\* no entry of the source tree.
Unrelated(e) ==
    {p \in DOMAIN fs0 :
        /\ IsPrefix(envDirPath(e), p)
        /\ Join(directoryName, Rel(envDirPath(e), p).rel) \notin DOMAIN fs0}

(* C14: a destination that exists already is merged into, not cleared.     *)
(* What was under a destination root at the start at a relative path that  *)
(* is not in the source tree is there unchanged in every state, while the  *)
(* copy runs and when it has ended, with or without an error; and making a *)
(* directory that exists already is not an error: a copy never ends with   *)
(* the error of os.MkdirAll on an entry whose destination is a directory.  *)
C14_MergedNotCleared ==
    \A e \in Envs :
        /\ \A p \in Unrelated(e) : p \in DOMAIN fs /\ fs[p] = fs0[p]
        /\ (task[e].err = "mkdir" /\ task[e].seen # <<>>) =>
              LET dp == DestOf(e, task[e].seen[Len(task[e].seen)])
              IN  ~(dp \in DOMAIN fs /\ IsDir(fs[dp]))

\* A copy into a destination that existed, with z.txt in it, has ended
\* without an error: z.txt is as it was and b has been made beside it.
C14_Witness ==
    \E e \in Envs :
        /\ Succeeded(e)
        /\ envDirPath(e) \in DOMAIN fs0
        /\ Join(envDirPath(e), <<"z.txt">>) \in Unrelated(e)
        /\ fs[Join(envDirPath(e), <<"z.txt">>)].data = OldData
        /\ Join(envDirPath(e), <<"b">>) \in DOMAIN fs \ DOMAIN fs0

----------------------------------------------------------------------------
(* Scheduling.  The Go scheduler always runs some goroutine that can run:  *)
(* a step of main or of a copy is taken as long as one is possible.        *)
(* Nothing is assumed about the repository phase, which waits for the      *)
(* user and the network.                                                   *)

Scheduled ==
    \/ CheckSource
    \/ CreateSolutions
    \/ CreateSolution
    \/ Dispatch
    \/ \E e \in Envs : Visit(e)
    \/ \E e \in Envs : Finish(e)
    \/ Wait
    \/ SeqIteration
    \/ SeqReturn
    \/ SeqComplete

\* The start states of the runs followed to their end: the source trees of
\* at most two entries where the copies run side by side and every source
\* tree in the sequential variant, with every destination fresh, with the
\* solution directory read-only, and with the first destination blocked by
\* a file or read-only; and the desktop as the source in the sequential
\* variant.
LiveScenarios(v) ==
    LET trees == IF v = "seq" THEN SourceTrees
                 ELSE {t \in SourceTrees : Cardinality(DOMAIN t) <= 2}
    IN  [dir : {<<"proj">>}, tree : trees,
         ws : {"present", "read-only solution"}, bad : {0}, dest : {"fresh"}]
        \cup [dir : {<<"proj">>}, tree : trees, ws : {"present"}, bad : {1},
              dest : {"blocked", "read-only"}]
        \cup [dir : IF v = "seq" THEN {<<"home", "Desktop">>} ELSE {},
              tree : {SourceTree("ok")}, ws : {"absent"}, bad : {0},
              dest : {"fresh"}]

LiveInit ==
    /\ variant \in Variants
    /\ \E s \in LiveScenarios(variant) :
         /\ directoryName = s.dir
         /\ fs0 = IF s.bad = 0 THEN s.tree @@ Workspace(s.ws)
                  ELSE s.tree @@ Workspace(s.ws) @@ Destination(s.bad, s.dest)
    /\ fs = fs0
    /\ fullDisk = {}
    /\ mainPc = "start"
    /\ idx = 1
    /\ wg = 0
    /\ task = [e \in Envs |-> IdleTask]
    /\ out = EmptyBag
    /\ git = NoGit

FairSpec == LiveInit /\ [][Next]_vars /\ WF_vars(Scheduled)

(* C15: under fair scheduling main, once in the loop over the              *)
(* environments, gets past the join (the end of the loop in the sequential *)
(* variant) and prints the completion message, and by then every           *)
(* dispatched copy has ended, with or without an error: wg.Wait() never    *)
(* blocks for ever, whether copies failed or none was dispatched.          *)
C15_Termination ==
    /\ (mainPc = "loop") ~> (Completed /\ PastJoin)
    /\ [](PastJoin => \A e \in Envs : Dispatched(e) => Terminal(task[e]))

\* The completion message is out and main is past the join in a run of a
\* program with a WaitGroup in which no copy was dispatched.
C15_Witness ==
    /\ Completed
    /\ PastJoin
    /\ variant \in WaitGroupVariants
    /\ \A e \in Envs : ~Dispatched(e)

\* The destinations whose copy changes from status a to status b in the
\* step.
Moved(a, b) ==
    {e \in Envs : task[e].status = a /\ task'[e].status = b}

(* C16: in the programs with a WaitGroup the counter always equals the     *)
(* number of copies dispatched and not yet ended, and is never negative.   *)
(* A step changes it by one at most: it goes up by one exactly in the step *)
(* that dispatches one copy, and down by one exactly in the step in which  *)
(* one copy ends, with or without an error.  A copy only goes from not     *)
(* dispatched to running to ended, so each is counted up once and down     *)
(* once, whatever the order of the steps of main and of the copies.        *)
C16_CounterIsRunningCopies ==
    /\ [](variant \in WaitGroupVariants =>
            /\ wg = Cardinality({e \in Envs : Running(e)})
            /\ wg >= 0)
    /\ [][(variant \in WaitGroupVariants) =>
            /\ wg' \in {wg - 1, wg, wg + 1}
            /\ (wg' = wg + 1) <=> (Cardinality(Moved("idle", "running")) = 1)
            /\ (wg' = wg - 1) <=> (Cardinality(Moved("running", "done")) = 1)
            /\ Cardinality(Moved("idle", "running")
                             \cup Moved("running", "done")) <= 1
            /\ \A e \in Envs :
                  task'[e].status # task[e].status =>
                     e \in Moved("idle", "running")
                              \cup Moved("running", "done")]_vars

\* main waits at the join with two copies running, one ended with an error
\* and one ended without.
C16_Witness ==
    /\ variant \in WaitGroupVariants
    /\ mainPc = "wait"
    /\ wg = 2
    /\ Cardinality({e \in Envs : Running(e)}) = 2
    /\ \E e, d \in Envs : Failed(e) /\ Succeeded(d)

\* The paths the step creates or writes.
Written == {p \in DOMAIN fs' : p \notin DOMAIN fs \/ fs'[p] # fs[p]}

(* C17: the copies share no path they write.  The five destination roots   *)
(* are pairwise distinct and none lies under another, so no path is under  *)
(* two of them; every path created or written by a step of the copy into   *)
(* destination e lies under the root of e; and a step of one copy leaves   *)
(* every other copy's walk as it is.  Hence no two running copies ever     *)
(* write the same path.                                                    *)
C17_NoSharedPaths ==
    /\ [](\A e, d \in Envs :
            e # d => /\ envDirPath(e) # envDirPath(d)
                     /\ ~IsPrefix(envDirPath(e), envDirPath(d)))
    /\ [][\A e \in Envs :
            task'[e].seen # task[e].seen =>
               /\ \A p \in Written : IsPrefix(envDirPath(e), p)
               /\ \A d \in Envs \ {e} :
                     /\ task'[d] = task[d]
                     /\ \A p \in Written : ~IsPrefix(envDirPath(d), p)]_vars

\* Two copies are running and each has written a.txt under its own root.
C17_Witness ==
    \E e, d \in Envs :
        /\ e # d
        /\ Walking(task[e]) /\ Walking(task[d])
        /\ Join(envDirPath(e), <<"a.txt">>) \in DOMAIN fs \ DOMAIN fs0
        /\ Join(envDirPath(d), <<"a.txt">>) \in DOMAIN fs \ DOMAIN fs0
        /\ fs[Join(envDirPath(e), <<"a.txt">>)].data = DataA

\* The environment directory of prefix e is there.
EnvDirMade(e) == envDirPath(e) \in DOMAIN fs /\ IsDir(fs[envDirPath(e)])

(* C18: a prefix whose environment directory cannot be made is skipped and *)
(* nothing else.  In main.go and enviorments2remote.go an iteration of the *)
(* loop either finds or makes the directory, raises the counter by one and *)
(* starts the copy, or fails to make it, prints the failure, leaves the    *)
(* counter and the copy of that prefix alone; in both cases main goes on   *)
(* to the next prefix (to the join after the last).  So the prefixes the   *)
(* loop has passed have a copy exactly when their directory is there, and  *)
(* the copies the join waits for or has waited for are as many as the      *)
(* directories made.                                                       *)
C18_SkipFailedPrefix ==
    /\ [](variant \in WaitGroupVariants =>
            /\ \A e \in Envs :
                  /\ Dispatched(e) => (e < idx /\ EnvDirMade(e))
                  /\ (e < idx /\ EnvDirMade(e)) => Dispatched(e)
                  /\ (e < idx /\ ~Dispatched(e)) =>
                        BagIn(Msg("Failed to create environment directory",
                                  <<envDirName(e)>>, "mkdir"), out)
            /\ wg + Cardinality({e \in Envs : Terminal(task[e])})
                  = Cardinality({e \in Envs : e < idx /\ Dispatched(e)}))
    /\ [][(variant \in WaitGroupVariants /\ mainPc = "loop" /\ idx' # idx) =>
            /\ idx' = idx + 1
            /\ mainPc' = IF idx = Len(environments) THEN "wait" ELSE "loop"
            /\ IF envDirPath(idx) \in DOMAIN fs' /\ IsDir(fs'[envDirPath(idx)])
               THEN /\ wg' = wg + 1
                    /\ task'[idx].status = "running"
               ELSE /\ wg' = wg
                    /\ task'[idx] = task[idx]
                    /\ task[idx].status = "idle"]_vars

\* The directory of the first prefix could not be made; main is at the
\* join, waiting for the copies of the four other prefixes.
C18_Witness ==
    /\ variant \in WaitGroupVariants
    /\ mainPc = "wait"
    /\ ~Dispatched(1) /\ ~EnvDirMade(1)
    /\ ReportCount(1) = 1
    /\ wg = Len(environments) - 1
    /\ \A e \in Envs \ {1} : Running(e)

(* C19 as stated: "Environment setup completed successfully!" is on        *)
(* standard output only when every one of the five destinations has been   *)
(* copied without an error: never after a copy has reported an error or an *)
(* environment directory could not be made.  (It fails: the message is     *)
(* printed after the join, or after the loop, whatever the copies          *)
(* returned.)                                                              *)
C19_SuccessOnlyIfAllCopied ==
    Completed =>
        /\ \A e \in Envs : Succeeded(e)
        /\ \A e \in Envs : ReportCount(e) = 0

\* The commands of setupGitForEnv as the repository phase is to run them.
InitAddCommitRemotePush == <<"init", "add", "commit", "remote add", "push">>

(* C20: the repository phase of enviorments2remote.go goes through the     *)
(* five environments in the order of the list, one prompt each.            *)
(* createGitHubRepo is called only after the answer y or Y, and            *)
(* setupGitForEnv only after createGitHubRepo has returned without an      *)
(* error for that environment.  After a failure of either, as after the    *)
(* answer no, main prompts for the next environment (it returns after the  *)
(* last).  The commands setupGitForEnv has run are init, add, commit,      *)
(* remote add, push in that order up to the first that failed, which is    *)
(* the one the error names; all five have run when the push is reported.   *)
C20_RepositoryPhase ==
    /\ [](/\ git.i \in Envs
          /\ git.pc \in {"create", "setup"} => git.answer \in {"y", "Y"}
          /\ git.pc = "setup" =>
                /\ git.token = "set"
                /\ git.said = Msg("Successfully created GitHub repository",
                                  <<envDirName(git.i)>>, "")
          /\ \E n \in 0..Len(InitAddCommitRemotePush) :
                git.steps = SubSeq(InitAddCommitRemotePush, 1, n)
          /\ (mainPc = "done" /\ git.said.text # "") =>
                git.i = Len(environments))
    /\ [][mainPc = "git" =>
            /\ git'.i \in {git.i, git.i + 1}
            /\ git'.i = git.i + 1 => (git'.pc = "prompt" /\ mainPc' = "git")
            /\ git'.i = git.i =>
                  \/ git.pc = "prompt" /\ git'.pc = "create"
                  \/ git.pc = "create" /\ git'.pc = "setup"
                  \/ git.i = Len(environments) /\ git'.pc = "off"
                        /\ mainPc' = "done"
            /\ git.i < Len(environments) =>
                  (git'.pc \in {"create", "setup"} \/ git'.i = git.i + 1)
            /\ git.pc = "create" =>
                  (git'.pc = "setup" <=> git'.said.err = "")
            /\ git.pc = "setup" =>
                  /\ git'.said.arg = <<envDirName(git.i)>>
                  /\ git'.steps # <<>>
                  /\ IF git'.steps = InitAddCommitRemotePush
                        /\ git'.said.err = ""
                     THEN git'.said.text = "Successfully pushed"
                     ELSE /\ git'.said.text = "Error setting up git"
                          /\ git'.said.err = git'.steps[Len(git'.steps)]]_vars

\* main prompts for the third environment after the commit of
\* setupGitForEnv has failed for the second.
C20_Witness ==
    /\ mainPc = "git"
    /\ git.i = 3
    /\ git.pc = "prompt"
    /\ git.token = "set"
    /\ git.steps = <<"init", "add", "commit">>
    /\ git.said = Msg("Error setting up git", <<envDirName(2)>>, "commit")

====
